---------------------------- MODULE Spec2Model ----------------------------
(***************************************************************************)
(* Model of the stock-report aggregation of cv-19-shopping-aid-server:     *)
(* the UploadReport handler (report.go), its request validation, the user  *)
(* and store lookups it makes, and the per-item get/put units of work of   *)
(* handleUploadToItems, run by concurrent request handlers against one     *)
(* datastore.                                                              *)
(* A second specification, SpecRank, models the query handlers QueryItems   *)
(* (item.go) and QueryStores (store.go) and the ranking of their results    *)
(* by Distance (loc_utils.go) over storage that uploads have filled.        *)
(*                                                                         *)
(* Strings that the code inspects character by character (item names) are  *)
(* sequences of one-character strings; identifiers (user ID, store ID)     *)
(* are plain strings, "" being Go's empty string.                          *)
(***************************************************************************)
EXTENDS Integers, Sequences, FiniteSets, TLC

\* ------------------------------------------------------------------ bounds

\* Largest value time.Now().Unix() returns; the smallest is 1.
MaxClock == 2
\* Largest number of raw item names in one request (both lists together).
MaxNames == 2

\* ------------------------------------------------------- program constants

StatusOK == 200
StatusBadRequest == 400
StatusForbidden == 403
StatusInternalServerError == 500

\* ------------------------------------------------------------- input sets

\* Two concurrent request handlers (net/http runs each request in its own
\* goroutine; other server processes share the same datastore). Handler c
\* serves the c-th request to arrive.
Callers == {1, 2}

\* Raw item names a request body with one name may carry, and those a body
\* with several names may carry.
RawNames == { <<" ">>, <<"A", " ">>, <<"a">> }
BatchRawNames == RawNames \cup { <<"b">> }

\* User IDs and store IDs a request body may carry: "" is a missing field,
\* "u9" and "s9" are IDs with no entity in storage.
ReqUserIDs == {"", "u1", "u2", "u9"}
ReqStoreIDs == {"", "s1", "s2", "s9"}

\* The user and the store of the requests that carry several item names.
BatchUser == "u1"
BatchStore == "s1"

\* ------------------------------------------------------------ entity types

\* type User (user.go). UsersInfo entries of a StockReport are Users too.
User(id, first, last, zip, ts) ==
    [UserID |-> id, FirstName |-> first, LastName |-> last, ZipCode |-> zip,
     TimestampSec |-> ts]

\* type Store (store.go).
Store(id, name, addr, lat, long) ==
    [StoreID |-> id, Name |-> name, Addr |-> addr, Lat |-> lat, Long |-> long]

\* type StockReport (report.go).
StockReport(usersInfo, storeInfo, ts, inStock, seenCnt) ==
    [UsersInfo |-> usersInfo, StoreInfo |-> storeInfo, TimestampSec |-> ts,
     InStock |-> inStock, SeenCnt |-> seenCnt]

\* type Item (item.go).
Item(name, stockReports) == [Name |-> name, StockReports |-> stockReports]

\* The zero value of `var item Item`.
ZeroItem == Item(<<>>, <<>>)

\* A zero User and a zero Store, for handlers that hold none.
ZeroUser == User("", "", "", "", 0)
ZeroStore == Store("", "", "", 0, 0)

\* An error value, by what its message is made of: kind is the message's fixed
\* text ("" for nil), count and item the number and the item name formatted
\* into it, cause the kind of the error it wraps.
Err(kind, count, item, cause) ==
    [kind |-> kind, count |-> count, item |-> item, cause |-> cause]
NoErr == Err("", 0, <<>>, "")

\* ------------------------------------------------------------------ state

VARIABLES
    users,      \* datastore kind "User":  user ID  -> User
    stores,     \* datastore kind "Store": store ID -> Store
    items,      \* datastore kind "Item":  item name -> Item (stored keys only)
    clock,      \* the latest value time.Now().Unix() has returned
    call,       \* per handler: the locals of UploadReport/handleUploadToItems
    hist,       \* per handler: history of the running request (not program state)
    nreq        \* requests started so far

vars == <<users, stores, items, clock, call, hist, nreq>>

\* The locals of a handler that is not serving a request.
IdleCall ==
    [pc |-> "idle",
     req |-> [UserID |-> "", StoreID |-> "", InStock |-> <<>>, OutStock |-> <<>>],
     user |-> ZeroUser, store |-> ZeroStore,
     checkInStock |-> TRUE, idx |-> 0, now |-> 0,
     item |-> ZeroItem, errFreq |-> 0, errResult |-> NoErr,
     status |-> 0, err |-> NoErr]

\* What is known of a request that has not arrived.
NoEntry ==
    [arrived |-> FALSE, invalid |-> FALSE, userKnown |-> FALSE, storeKnown |-> FALSE,
     fault |-> [user |-> "none", store |-> "none", client |-> "none"]]

\* History of a request: the entity stored under the key when the latest unit
\* of work started, whether another handler has put that key since, one entry
\* per unit of work finished so far, and what the request was when it arrived.
IdleHist ==
    [unit |-> <<>>, fetched |-> <<>>, interfered |-> FALSE, log |-> <<>>,
     entry |-> NoEntry]

Init ==
    /\ users = [u \in {"u1", "u2"} |->
                  User(u, IF u = "u1" THEN "Tony" ELSE "Peter",
                          IF u = "u1" THEN "Stark" ELSE "Parker",
                          IF u = "u1" THEN "98109" ELSE "98101", 1)]
    /\ stores = [s \in {"s1", "s2"} |->
                  Store(s, "Costco", IF s = "s1" THEN "Kirkland" ELSE "Seattle",
                        IF s = "s1" THEN 47 ELSE 48, -122)]
    /\ items = <<>>
    /\ clock = 1
    /\ call = [c \in Callers |-> IdleCall]
    /\ hist = [c \in Callers |-> IdleHist]
    /\ nreq = 0


\* ------------------------------------------------------ request validation

\* strings.TrimSpace: drops leading and trailing white space.
IsSpace(ch) == ch = " "

RECURSIVE TrimLeft(_)
TrimLeft(s) == IF s # <<>> /\ IsSpace(Head(s)) THEN TrimLeft(Tail(s)) ELSE s

RECURSIVE TrimRight(_)
TrimRight(s) ==
    IF s # <<>> /\ IsSpace(s[Len(s)]) THEN TrimRight(SubSeq(s, 1, Len(s) - 1)) ELSE s

TrimSpace(s) == TrimRight(TrimLeft(s))

\* strings.ToLower, on the letters the input sets use.
ToLowerChar(ch) == CASE ch = "A" -> "a" [] ch = "B" -> "b" [] OTHER -> ch

ToLower(s) == [i \in 1..Len(s) |-> ToLowerChar(s[i])]

\* A variant of cleanNames that skips an empty name instead of refusing it.
RECURSIVE cleanNamesSkipEmpty(_, _, _, _)
cleanNamesSkipEmpty(raw, i, seen, acc) ==
    IF i > Len(raw) THEN [bad |-> FALSE, at |-> 0, names |-> acc, seen |-> seen]
    ELSE LET item == ToLower(TrimSpace(raw[i])) IN
         IF item = <<>> \/ item \in seen THEN cleanNamesSkipEmpty(raw, i + 1, seen, acc)
         ELSE cleanNamesSkipEmpty(raw, i + 1, seen \cup {item}, Append(acc, item))

\* One of the two loops of cleanAndValidateUploadReportReq, from index i on:
\* names are trimmed and lower-cased, an empty one is an error, one already
\* seen (in this list or the list before) is skipped.
RECURSIVE cleanNames(_, _, _, _)
cleanNames(raw, i, seen, acc) ==
    IF i > Len(raw) THEN [bad |-> FALSE, at |-> 0, names |-> acc, seen |-> seen]
    ELSE LET item == ToLower(TrimSpace(raw[i])) IN
         IF item = <<>> THEN [bad |-> TRUE, at |-> i - 1, names |-> acc, seen |-> seen]
         ELSE IF item \in seen THEN cleanNames(raw, i + 1, seen, acc)
         ELSE cleanNames(raw, i + 1, seen \cup {item}, Append(acc, item))

\* A variant of cleanAndValidateUploadReportReq whose second loop starts from
\* an empty `seen`.
cleanAndValidateUploadReportReqPerList(req) ==
    LET in == cleanNames(req.InStock, 1, {}, <<>>)
        out == cleanNames(req.OutStock, 1, {}, <<>>)
    IN  IF req.UserID = "" THEN [err |-> Err("missing user id", 0, <<>>, ""), req |-> req]
        ELSE IF req.StoreID = ""
             THEN [err |-> Err("missing store id", 0, <<>>, ""), req |-> req]
        ELSE IF Len(req.InStock) = 0 /\ Len(req.OutStock) = 0
             THEN [err |-> Err("in-stock and out-of-stock items are both empty", 0, <<>>, ""),
                   req |-> req]
        ELSE IF in.bad
             THEN [err |-> Err("in-stock item at index is empty", in.at, <<>>, ""), req |-> req]
        ELSE IF out.bad
             THEN [err |-> Err("out-of-stock item at index is empty", out.at, <<>>, ""), req |-> req]
        ELSE [err |-> NoErr,
              req |-> [req EXCEPT !.InStock = in.names, !.OutStock = out.names]]

\* cleanAndValidateUploadReportReq: the error it returns ("" kind for nil)
\* and the request as it leaves it.
cleanAndValidateUploadReportReq(req) ==
    LET in == cleanNames(req.InStock, 1, {}, <<>>)
        out == cleanNames(req.OutStock, 1, in.seen, <<>>)
    IN  IF req.UserID = "" THEN [err |-> Err("missing user id", 0, <<>>, ""), req |-> req]
        ELSE IF req.StoreID = ""
             THEN [err |-> Err("missing store id", 0, <<>>, ""), req |-> req]
        ELSE IF Len(req.InStock) = 0 /\ Len(req.OutStock) = 0
             THEN [err |-> Err("in-stock and out-of-stock items are both empty", 0, <<>>, ""),
                   req |-> req]
        ELSE IF in.bad
             THEN [err |-> Err("in-stock item at index is empty", in.at, <<>>, ""), req |-> req]
        ELSE IF out.bad
             THEN [err |-> Err("out-of-stock item at index is empty", out.at, <<>>, ""), req |-> req]
        ELSE [err |-> NoErr,
              req |-> [req EXCEPT !.InStock = in.names, !.OutStock = out.names]]

\* Sequences over S of length at most n.
SeqsUpTo(S, n) == UNION {[1..k -> S] : k \in 0..n}

\* The request bodies that decode. A body with at most one raw name may carry
\* any user ID and store ID; a body with more names, up to MaxNames in all,
\* comes from user BatchUser at store BatchStore.
RawRequests ==
    {[UserID |-> u, StoreID |-> s, InStock |-> p[1], OutStock |-> p[2]] :
        u \in ReqUserIDs, s \in ReqStoreIDs,
        p \in {q \in SeqsUpTo(RawNames, 1) \X SeqsUpTo(RawNames, 1) :
                 Len(q[1]) + Len(q[2]) <= 1}}
    \cup
    {[UserID |-> BatchUser, StoreID |-> BatchStore, InStock |-> p[1], OutStock |-> p[2]] :
        p \in {q \in SeqsUpTo(BatchRawNames, MaxNames) \X SeqsUpTo(BatchRawNames, MaxNames) :
                 Len(q[1]) + Len(q[2]) \in 2..MaxNames}}

\* ----------------------------------------------------------- the lookups

\* What can go wrong in a lookup: StorageClient fails, or the Get's RPC does.
LookupFaults == {"none", "client", "rpc"}

\* What goes wrong between validation and the first unit of work: nothing, or
\* one of the faults of the user lookup, of the store lookup, or StorageClient.
EntryFaults ==
    {[user |-> "none", store |-> "none", client |-> "none"]}
    \cup {[user |-> f, store |-> "none", client |-> "none"] : f \in LookupFaults}
    \cup {[user |-> "none", store |-> f, client |-> "none"] : f \in LookupFaults}
    \cup {[user |-> "none", store |-> "none", client |-> "client"]}

\* GetUserInStorage: (user, exists, error).
GetUserInStorage(userID, fault) ==
    IF fault = "client"
    THEN [user |-> ZeroUser, ok |-> FALSE, err |-> Err("storage client", 0, <<>>, "")]
    ELSE IF fault = "rpc"
    THEN [user |-> ZeroUser, ok |-> FALSE, err |-> Err("rpc error", 0, <<>>, "")]
    ELSE IF userID \notin DOMAIN users
    THEN [user |-> ZeroUser, ok |-> FALSE, err |-> NoErr]
    ELSE [user |-> users[userID], ok |-> TRUE, err |-> NoErr]

\* A variant of GetStoreInStorage that takes a store that does not exist for
\* an empty one, without an error.
GetStoreInStorageLenient(storeID, fault) ==
    IF fault = "client"
    THEN [store |-> ZeroStore, err |-> Err("storage client", 0, <<>>, "")]
    ELSE IF fault = "rpc"
    THEN [store |-> ZeroStore,
          err |-> Err("failed to get store from storage", 0, <<>>, "rpc error")]
    ELSE IF storeID \notin DOMAIN stores
    THEN [store |-> ZeroStore, err |-> NoErr]
    ELSE [store |-> stores[storeID], err |-> NoErr]

\* GetStoreInStorage: (store, error). Any error of the Get, ErrNoSuchEntity
\* included, is wrapped the same way.
GetStoreInStorage(storeID, fault) ==
    IF fault = "client"
    THEN [store |-> ZeroStore, err |-> Err("storage client", 0, <<>>, "")]
    ELSE IF fault = "rpc"
    THEN [store |-> ZeroStore,
          err |-> Err("failed to get store from storage", 0, <<>>, "rpc error")]
    ELSE IF storeID \notin DOMAIN stores
    THEN [store |-> ZeroStore,
          err |-> Err("failed to get store from storage", 0, <<>>, "no such entity")]
    ELSE [store |-> stores[storeID], err |-> NoErr]


\* ------------------------------------------------------- the merge policy

\* A variant of sameReport that never matches: every report is appended as a
\* new entry.
sameReportNever(sr, store, checkInStock) ==
    FALSE

\* A variant of sameReport that compares the store only: in-stock and
\* out-of-stock reports of a store share one entry.
sameReportAnyFlag(sr, store, checkInStock) ==
    sr.StoreInfo.StoreID = store.StoreID

\* The test of report.go:96: the report is the one for this store and flag.
sameReport(sr, store, checkInStock) ==
    sr.StoreInfo.StoreID = store.StoreID /\ sr.InStock = checkInStock

\* The loop of report.go:95: the index of the first report of `reports`, from
\* index i on, that sameReport accepts; 0 when there is none.
RECURSIVE findReport(_, _, _, _)
findReport(reports, i, store, checkInStock) ==
    IF i > Len(reports) THEN 0
    ELSE IF sameReport(reports[i], store, checkInStock) THEN i
    ELSE findReport(reports, i + 1, store, checkInStock)

\* A variant of userAlreadyReported that recognises no user.
userNeverReported(sr, user) ==
    FALSE

\* The loop of report.go:98-104.
userAlreadyReported(sr, user) ==
    \E j \in 1..Len(sr.UsersInfo) : sr.UsersInfo[j].UserID = user.UserID

\* A variant of updateReport that appends a new observer without counting it.
updateReportNoCount(sr, user, now) ==
    LET counted == IF userAlreadyReported(sr, user) THEN sr
                   ELSE [sr EXCEPT !.UsersInfo = Append(@, User(user.UserID, "", "", "", now))]
    IN  [counted EXCEPT !.TimestampSec = now]

\* A variant of updateReport that counts a repeated observer again.
updateReportRecount(sr, user, now) ==
    LET counted == IF userAlreadyReported(sr, user)
                   THEN [sr EXCEPT !.SeenCnt = @ + 1]
                   ELSE [sr EXCEPT !.SeenCnt = @ + 1,
                                   !.UsersInfo = Append(@, User(user.UserID, "", "", "", now))]
    IN  [counted EXCEPT !.TimestampSec = now]

\* A variant of updateReport that sets TimestampSec only when it counts the
\* user.
updateReportStampNewOnly(sr, user, now) ==
    IF userAlreadyReported(sr, user) THEN sr
    ELSE [sr EXCEPT !.SeenCnt = @ + 1,
                    !.UsersInfo = Append(@, User(user.UserID, "", "", "", now)),
                    !.TimestampSec = now]

\* A variant of updateReport that gives the observer entry of a user it does
\* not count the upload's time.
updateReportRestamp(sr, user, now) ==
    IF userAlreadyReported(sr, user)
    THEN [sr EXCEPT !.TimestampSec = now,
                    !.UsersInfo = [j \in 1..Len(@) |->
                                     IF @[j].UserID = user.UserID
                                     THEN [@[j] EXCEPT !.TimestampSec = now]
                                     ELSE @[j]]]
    ELSE [sr EXCEPT !.SeenCnt = @ + 1,
                    !.UsersInfo = Append(@, User(user.UserID, "", "", "", now)),
                    !.TimestampSec = now]

\* report.go:105-109 on the report found.
updateReport(sr, user, now) ==
    LET counted == IF userAlreadyReported(sr, user) THEN sr
                   ELSE [sr EXCEPT !.SeenCnt = @ + 1,
                                   !.UsersInfo = Append(@, User(user.UserID, "", "", "", now))]
    IN  [counted EXCEPT !.TimestampSec = now]

\* A variant of newReport that leaves the report's TimestampSec at zero.
newReportNoTimestamp(store, user, now, checkInStock) ==
    StockReport(<<User(user.UserID, "", "", "", now)>>, store, 0, checkInStock, 1)

\* A variant of newReport whose observer entry is the whole User entity.
newReportWholeUser(store, user, now, checkInStock) ==
    StockReport(<<[user EXCEPT !.TimestampSec = now]>>, store, now, checkInStock, 1)

\* report.go:116-122.
newReport(store, user, now, checkInStock) ==
    StockReport(<<User(user.UserID, "", "", "", now)>>, store, now, checkInStock, 1)

\* A variant of applyReport that puts a new report before the others.
applyReportPrepend(item, store, user, now, checkInStock) ==
    LET i == findReport(item.StockReports, 1, store, checkInStock) IN
    IF i # 0
    THEN [item EXCEPT !.StockReports[i] = updateReport(@, user, now)]
    ELSE [item EXCEPT !.StockReports = <<newReport(store, user, now, checkInStock)>> \o @]

\* A variant of applyReport whose new report takes the place of the others.
applyReportFresh(item, store, user, now, checkInStock) ==
    LET i == findReport(item.StockReports, 1, store, checkInStock) IN
    IF i # 0
    THEN [item EXCEPT !.StockReports[i] = updateReport(@, user, now)]
    ELSE [item EXCEPT !.StockReports = <<newReport(store, user, now, checkInStock)>>]

\* The item the closure puts, from the item it got (report.go:93-123).
applyReport(item, store, user, now, checkInStock) ==
    LET i == findReport(item.StockReports, 1, store, checkInStock) IN
    IF i # 0
    THEN [item EXCEPT !.StockReports[i] = updateReport(@, user, now)]
    ELSE [item EXCEPT !.StockReports = Append(@, newReport(store, user, now, checkInStock))]


\* ------------------------------------------------------------ the handler

\* What the handler answers: http.Error(w, err.Error(), status), or 200.
\* UploadReport has returned: of its locals only the request is kept, to tell
\* what was answered to what.
respond(l, status, err) ==
    [IdleCall EXCEPT !.pc = "done", !.req = l.req, !.status = status, !.err = err]

\* The item names of the list the handler is working on.
Names(l) == IF l.checkInStock THEN l.req.InStock ELSE l.req.OutStock

\* The item name the loop of handleUploadToItems is at.
Key(l) == Names(l)[l.idx]

\* The entry of handleUploadToItems(..., itemNames, checkInStock) at time t:
\* now, errFreq and errResult are set, and the loop starts or, over an empty
\* list, is over at once.
enterList(l, checkInStock, t) ==
    LET m == [l EXCEPT !.checkInStock = checkInStock, !.now = t, !.errFreq = 0,
                       !.errResult = NoErr, !.idx = 1]
    IN  [m EXCEPT !.pc = IF Len(Names(m)) = 0 THEN "ret" ELSE "get"]

\* UploadReport down to the first call of handleUploadToItems, on a decoded
\* body: validation, GetUserInStorage, GetStoreInStorage, StorageClient.
uploadReportEntry(l, body, fault, t) ==
    LET v == cleanAndValidateUploadReportReq(body)
        u == GetUserInStorage(v.req.UserID, fault.user)
        s == GetStoreInStorage(v.req.StoreID, fault.store)
    IN  IF v.err # NoErr THEN respond(l, StatusBadRequest, v.err)
        ELSE IF u.err # NoErr
        THEN respond(l, StatusInternalServerError,
                     Err("failed to check user creds", 0, <<>>, u.err.kind))
        ELSE IF ~u.ok
        THEN respond(l, StatusForbidden, Err("user id is invalid", 0, <<>>, ""))
        ELSE IF s.err # NoErr THEN respond(l, StatusInternalServerError, s.err)
        ELSE IF fault.client # "none"
        THEN respond(l, StatusInternalServerError, Err("storage client", 0, <<>>, ""))
        ELSE enterList([l EXCEPT !.req = v.req, !.user = u.user, !.store = s.store],
                       TRUE, t)

\* An item name that is empty once the white space around it is cut.
BlankName(raw) == \A i \in 1..Len(raw) : IsSpace(raw[i])

\* What a decoded body is when it arrives under the faults `fault`: whether it
\* lacks a user ID, a store ID or item names, or carries a blank item name;
\* whether storage holds the user and the store it names; and the faults.
EntryOf(body, fault) ==
    [arrived |-> TRUE,
     invalid |-> \/ body.UserID = ""
                 \/ body.StoreID = ""
                 \/ Len(body.InStock) + Len(body.OutStock) = 0
                 \/ \E i \in 1..Len(body.InStock) : BlankName(body.InStock[i])
                 \/ \E i \in 1..Len(body.OutStock) : BlankName(body.OutStock[i]),
     userKnown |-> body.UserID \in DOMAIN users,
     storeKnown |-> body.StoreID \in DOMAIN stores,
     fault |-> fault]

\* A request arrives whose body does not decode as JSON: 400.
UploadReportBadBody(c) ==
    /\ call[c].pc = "idle"
    /\ nreq = c - 1
    /\ nreq' = nreq + 1
    /\ call' = [call EXCEPT ![c] =
                  respond(@, StatusBadRequest,
                          Err("failed to decode request body in json", 0, <<>>, ""))]
    /\ UNCHANGED <<users, stores, items, clock, hist>>

\* A request arrives: UploadReport down to the first call of
\* handleUploadToItems, which reads the clock: t is the time then, not before
\* any time read earlier. The User and Store entities it reads are written by
\* no action.
UploadReport(c) ==
    /\ call[c].pc = "idle"
    /\ nreq = c - 1
    /\ nreq' = nreq + 1
    /\ \E body \in RawRequests, fault \in EntryFaults, t \in clock..MaxClock :
         /\ call' = [call EXCEPT ![c] = uploadReportEntry(@, body, fault, t)]
         /\ hist' = [hist EXCEPT ![c].entry = EntryOf(body, fault)]
         /\ clock' = t
    /\ UNCHANGED <<users, stores, items>>

\* --------------------------------------------------------- the unit of work

\* The handlers, other than c, whose latest unit of work is on key and that
\* have not left the loop since.
Overlapping(c, key) ==
    {d \in Callers \ {c} :
        /\ hist[d].unit = key
        /\ call[d].pc \in {"put", "get", "ret"}}

\* The history entry of a finished unit.
LogEntry(l, err, put) ==
    [name |-> Key(l), inStock |-> l.checkInStock, failed |-> err # NoErr, put |-> put]

\* The Item entity stored under key, as a sequence of none or one.
Stored(key) == IF key \in DOMAIN items THEN <<items[key]>> ELSE <<>>

\* A variant of endUnit that leaves the loop at the first failed unit.
endUnitFailFast(l, err) ==
    LET m == [l EXCEPT !.errFreq = IF err # NoErr THEN @ + 1 ELSE @,
                       !.errResult = IF err # NoErr /\ @ = NoErr THEN err ELSE @,
                       !.idx = @ + 1, !.item = ZeroItem]
    IN  [m EXCEPT !.pc = IF m.idx > Len(Names(m)) \/ err # NoErr THEN "ret" ELSE "get"]

\* report.go:128-136 and the loop's step, for a unit that returned err (NoErr
\* for nil): a failed unit is counted and the first error kept, and the loop
\* goes on to the next item name or is over.
endUnit(l, err) ==
    LET m == [l EXCEPT !.errFreq = IF err # NoErr THEN @ + 1 ELSE @,
                       !.errResult = IF err # NoErr /\ @ = NoErr THEN err ELSE @,
                       !.idx = @ + 1, !.item = ZeroItem]
    IN  [m EXCEPT !.pc = IF m.idx > Len(Names(m)) THEN "ret" ELSE "get"]

\* The outcomes of the first half of a unit of work: the closure's Get fails
\* ("rpc"), or it returns the entity or ErrNoSuchEntity. A transaction that
\* cannot begin ends the unit as a failed Get does, with another message.
GetFaults == {"none", "rpc"}

\* RunInTransaction begins a transaction and calls the closure, which gets the
\* item with client.Get (report.go:83-92) and changes its own copy of it
\* (report.go:93-123).
TxGet(c) ==
    /\ call[c].pc = "get"
    /\ LET l == call[c]
           key == Key(l)
           before == Stored(key)
           item == IF before = <<>> THEN Item(key, <<>>) ELSE before[1]
       IN  \E f \in GetFaults :
             LET err == IF f = "rpc"
                        THEN Err("failed to fetch item from storage", 0, key, "rpc error")
                        ELSE NoErr
             IN  /\ call' = [call EXCEPT ![c] =
                               IF err # NoErr THEN endUnit(l, err)
                               ELSE [l EXCEPT !.pc = "put",
                                              !.item = applyReport(item, l.store, l.user,
                                                                   l.now, l.checkInStock)]]
                 /\ hist' = [hist EXCEPT ![c] =
                               [unit |-> key, fetched |-> before, interfered |-> FALSE,
                                log |-> IF err # NoErr
                                        THEN Append(@.log, LogEntry(l, err, FALSE))
                                        ELSE @.log,
                                entry |-> @.entry]]
    /\ UNCHANGED <<users, stores, items, clock, nreq>>

\* The outcomes of the second half: the closure's Put fails; the Put succeeds
\* and the commit fails; both succeed.
PutFaults == {"none", "rpc", "commit"}

\* A variant of clientPut that leaves the entity it writes alone in its kind.
clientPutOnly(key, item) == key :> item

\* The Item kind after client.Put(ctx, key, &item) (report.go:110 or 124): the
\* entity is stored under key, in place of the one stored there if any.
clientPut(key, item) == (key :> item) @@ items

\* The closure's client.Put (report.go:110 or 124) writes the entity to the
\* datastore at once, outside the transaction; the closure returns and
\* RunInTransaction commits the transaction, which holds no read and no write
\* and so touches no entity; the unit's error is tallied (report.go:128-136).
TxPut(c) ==
    /\ call[c].pc = "put"
    /\ LET l == call[c]
           key == Key(l)
           kind == IF hist[c].fetched # <<>>
                      /\ findReport(hist[c].fetched[1].StockReports, 1, l.store,
                                    l.checkInStock) # 0
                   THEN "failed to update item in storage with an existing stock report"
                   ELSE "failed to update item in storage with new stock report"
       IN  \E f \in PutFaults :
             LET err == IF f = "rpc" THEN Err(kind, 0, key, "rpc error")
                        ELSE IF f = "commit" THEN Err("commit", 0, key, "rpc error")
                        ELSE NoErr
                 put == f # "rpc"
             IN  /\ call' = [call EXCEPT ![c] = endUnit(l, err)]
                 /\ items' = IF put THEN clientPut(key, l.item) ELSE items
                 /\ hist' = [d \in Callers |->
                               IF d = c
                               THEN [hist[c] EXCEPT !.log = Append(@, LogEntry(l, err, put))]
                               ELSE IF put /\ d \in Overlapping(c, key)
                               THEN [hist[d] EXCEPT !.interfered = TRUE]
                               ELSE hist[d]]
    /\ UNCHANGED <<users, stores, clock, nreq>>

\* handleUploadToItems returns (report.go:138-141) and UploadReport goes on
\* (report.go:63-71): an error ends the request with 500, the in-stock list is
\* followed by the out-of-stock list, entered at time t, the out-of-stock
\* list by 200.
Return(c) ==
    /\ call[c].pc = "ret"
    /\ LET l == call[c] IN
       \E t \in clock..MaxClock :
         /\ call' = [call EXCEPT ![c] =
                       IF l.errResult # NoErr
                       THEN respond(l, StatusInternalServerError,
                                    Err("Encountered failures, recorded the first one",
                                        l.errFreq, l.errResult.item, l.errResult.kind))
                       ELSE IF l.checkInStock THEN enterList(l, FALSE, t)
                       ELSE respond(l, StatusOK, NoErr)]
         /\ clock' = IF l.errResult = NoErr /\ l.checkInStock THEN t ELSE clock
    /\ hist' = [hist EXCEPT ![c] = [IdleHist EXCEPT !.log = hist[c].log, !.entry = hist[c].entry]]
    /\ UNCHANGED <<users, stores, items, nreq>>

Next ==
    \/ \E c \in Callers : UploadReportBadBody(c)
    \/ \E c \in Callers : UploadReport(c)
    \/ \E c \in Callers : TxGet(c)
    \/ \E c \in Callers : TxPut(c)
    \/ \E c \in Callers : Return(c)

Spec == Init /\ [][Next]_vars


\* ------------------------------------------------- coordinates and distance

\* loc_utils.go: type coord.
coord(lat, long) == [Lat |-> lat, Long |-> long]

\* The Coordinate Reference Table, zipCodeToLatLong, as init() has loaded it.
\* Coordinates are in whole degrees, on the grid the model computes distances
\* on: latitudes -90, 0, 90 and longitudes that are multiples of 60.
zipCodeToLatLong == "98109" :> coord(0, -120)

\* A variant of zipCoord whose value for a missing key is not the zero value.
zipCoordElsewhere(zipCode) ==
    IF zipCode \in DOMAIN zipCodeToLatLong THEN zipCodeToLatLong[zipCode]
    ELSE coord(0, 120)

\* zipCodeToLatLong[zipCode]: a Go map yields the zero value for a missing key.
zipCoord(zipCode) ==
    IF zipCode \in DOMAIN zipCodeToLatLong THEN zipCodeToLatLong[zipCode]
    ELSE coord(0, 0)

\* Twice math.Cos and math.Sin of an angle in degrees, where that is a whole
\* number (multiples of 60 and of 90 degrees).
Cos2(deg) ==
    CASE deg % 360 = 0 -> 2
      [] deg % 360 = 60 -> 1
      [] deg % 360 = 90 -> 0
      [] deg % 360 = 120 -> -1
      [] deg % 360 = 180 -> -2
      [] deg % 360 = 240 -> -1
      [] deg % 360 = 270 -> 0
      [] deg % 360 = 300 -> 1
Sin2(deg) == Cos2(deg - 90)

\* math.Acos, in degrees, of x / 8.
Acos8(x) ==
    CASE x = 8 -> 0
      [] x = 4 -> 60
      [] x = 0 -> 90
      [] x = -4 -> 120
      [] x = -8 -> 180

\* Distance (loc_utils.go:41-61), in hundredths of a mile: the cosine of the
\* central angle (here times 8), cut to 1 from above, its arc cosine in
\* degrees, times 60 * 1.1515.
Distance(lat1, lng1, lat2, lng2) ==
    LET theta == lng1 - lng2
        dist == 2 * Sin2(lat1) * Sin2(lat2) + Cos2(lat1) * Cos2(lat2) * Cos2(theta)
        cut == IF dist > 8 THEN 8 ELSE dist
    IN  Acos8(cut) * 6909

\* ------------------------------------------------------------- sort.Slice

\* The orders sort.Slice can leave the elements idxs in, lt being the pairs
\* <<i, j>> for which less says that element i goes before element j: no
\* element is put after one that it goes before. sort.Slice does not keep the
\* order of elements neither of which goes before the other: the order they
\* come out in depends on the order the datastore query delivered them in,
\* which without a sort order is not fixed, and on the sorting algorithm.
RECURSIVE sortedOrders(_, _)
sortedOrders(idxs, lt) ==
    IF idxs = {} THEN {<<>>}
    ELSE UNION {{<<i>> \o t : t \in sortedOrders(idxs \ {i}, lt)} :
                  i \in {m \in idxs : \A j \in idxs : <<j, m>> \notin lt}}

\* The sequence s taken in the order o of its indices.
Permute(s, o) == [k \in 1..Len(o) |-> s[o[k]]]

\* How many elements of the sequence s are x.
Count(s, x) == Cardinality({i \in 1..Len(s) : s[i] = x})

\* ------------------------------------------------------------- QueryItems

\* item.go:18-21.
secondsToHour == 3600
secondsToDay == 3600 * 24

\* item.go: type ItemInfo.
ItemInfo(daysAgo, hoursAgo, st, inStock, seenCnt) ==
    [DaysAgo |-> daysAgo, HoursAgo |-> hoursAgo, StoreName |-> st.Name,
     StoreAddr |-> st.Addr, StoreLat |-> st.Lat, StoreLng |-> st.Long,
     InStock |-> inStock, SeenCnt |-> seenCnt]

\* parseItem (item.go:202-219), time.Now().Unix() being now: one ItemInfo per
\* stock report, in the order of the item's report sequence.
parseItem(item, now) ==
    [i \in 1..Len(item.StockReports) |->
        LET stockReport == item.StockReports[i]
            secondsAgo == now - stockReport.TimestampSec
        IN  ItemInfo(secondsAgo \div secondsToDay, secondsAgo \div secondsToHour,
                     stockReport.StoreInfo, stockReport.InStock, stockReport.SeenCnt)]

\* A variant of itemLess that ranks the farther store first.
itemLessFarthest(a, b, lat, lng) ==
    LET d1 == Distance(a.StoreLat, a.StoreLng, lat, lng)
        d2 == Distance(b.StoreLat, b.StoreLng, lat, lng)
    IN  IF d1 = d2 THEN a.HoursAgo < b.HoursAgo ELSE d1 > d2

\* The less function of sortItems (item.go:228-235).
itemLess(a, b, lat, lng) ==
    LET d1 == Distance(a.StoreLat, a.StoreLng, lat, lng)
        d2 == Distance(b.StoreLat, b.StoreLng, lat, lng)
    IN  IF d1 = d2 THEN a.HoursAgo < b.HoursAgo ELSE d1 < d2

\* sortItems (item.go:224-237): the orders it can leave resp in, as orders of
\* the indices of resp.
sortItems(resp, zipCode) ==
    LET coords == zipCoord(zipCode)
        lat == coords.Lat
        lng == coords.Long
    IN  sortedOrders(1..Len(resp),
                     {p \in (1..Len(resp)) \X (1..Len(resp)) :
                        itemLess(resp[p[1]], resp[p[2]], lat, lng)})

\* cleanAndValidateQueryItemsReq (item.go:187-196).
cleanAndValidateQueryItemsReq(req) ==
    LET r == [req EXCEPT !.ItemName = ToLower(@)] IN
    IF r.UserID = "" THEN [err |-> Err("missing user id", 0, <<>>, ""), req |-> r]
    ELSE IF r.ItemName = <<>>
    THEN [err |-> Err("missing item name", 0, <<>>, ""), req |-> r]
    ELSE [err |-> NoErr, req |-> r]

\* What can go wrong in a query handler: the body does not decode, the user
\* lookup fails, StorageClient fails, the query's iterator fails, the
\* response does not encode.
QueryFaults == {"none", "decode", "user", "client", "query", "encode"}

\* A query handler has answered: the status, the error, and the response body
\* when the status is 200.
QueryDone(op, req, user, status, err, resp) ==
    [pc |-> "done", op |-> op, req |-> req, user |-> user, status |-> status,
     err |-> err, resp |-> resp]

\* What is kept of a query besides its answer: the clock it read and the
\* order sort.Slice left the fetched results in.
QueryHist(now, order) == [now |-> now, order |-> order]

\* The item names a QueryItems request can carry.
QueryItemNames == { <<>>, <<"a">>, <<"A">>, <<"b">> }

\* QueryItems (item.go:136-185), under the fault `fault`, the clock reading t:
\* the answers it can give, each with the order sortItems chose.
queryItems(body, fault, t) ==
    LET v == cleanAndValidateQueryItemsReq(body)
        u == GetUserInStorage(v.req.UserID, IF fault = "user" THEN "rpc" ELSE "none")
        match == {key \in DOMAIN items : items[key].Name = v.req.ItemName}
        fetched == IF match = {} THEN <<>>
                   ELSE parseItem(items[CHOOSE key \in match : TRUE], t)
        fail(status, err) ==
            {[call |-> QueryDone("QueryItems", v.req, u.user, status, err, <<>>),
              hist |-> QueryHist(0, <<>>)]}
    IN  IF fault = "decode"
        THEN {[call |-> QueryDone("QueryItems", body, ZeroUser, StatusBadRequest,
                                  Err("failed to decode request body in json", 0, <<>>, ""),
                                  <<>>),
               hist |-> QueryHist(0, <<>>)]}
        ELSE IF v.err # NoErr
        THEN {[call |-> QueryDone("QueryItems", v.req, ZeroUser, StatusBadRequest, v.err,
                                  <<>>),
               hist |-> QueryHist(0, <<>>)]}
        ELSE IF u.err # NoErr
        THEN fail(StatusInternalServerError,
                  Err("failed to check user creds", 0, <<>>, u.err.kind))
        ELSE IF ~u.ok THEN fail(StatusForbidden, Err("user id is invalid", 0, <<>>, ""))
        ELSE IF fault = "client"
        THEN fail(StatusInternalServerError, Err("storage client", 0, <<>>, ""))
        ELSE IF fault = "query"
        THEN fail(StatusInternalServerError, Err("failed to query items", 0, <<>>, ""))
        ELSE IF fault = "encode"
        THEN fail(StatusInternalServerError,
                  Err("failed to encode response in json", 0, <<>>, ""))
        ELSE {[call |-> QueryDone("QueryItems", v.req, u.user, StatusOK, NoErr,
                                  Permute(fetched, o)),
               hist |-> QueryHist(t, o)] :
                o \in sortItems(fetched, u.user.ZipCode)}

\* ------------------------------------------------------------ QueryStores

\* store.go:51-54.
queryStoresLimit == 10

\* The addresses of the model that match validAddress (store.go:22-24),
\* `<street>, <city>, <state> <zip code>`.
validAddress(address) == address \in {"1 Main St, Kirkland, WA 98033"}

\* store.go: type Address.
Address(street, city, state, zipCode) ==
    [Street |-> street, City |-> city, State |-> state, ZipCode |-> zipCode]

\* parseAddressComponents (store.go:148-160).
parseAddressComponents(address) ==
    IF ~validAddress(address)
    THEN [err |-> Err("address does not follow standard format", 0, <<>>, ""),
          addr |-> Address("", "", "", "")]
    ELSE [err |-> NoErr, addr |-> Address("1 Main St", "Kirkland", "WA", "98033")]

\* store.go: type QueryStoreInfo.
QueryStoreInfo(st, addr) == [Store |-> st, Address |-> addr]

\* A variant of storeLess that ranks the farther store first.
storeLessFarthest(a, b, lat, lng) ==
    Distance(a.Lat, a.Long, lat, lng) > Distance(b.Lat, b.Long, lat, lng)

\* The less function of sortStoresByDistance (store.go:351-354).
storeLess(a, b, lat, lng) ==
    Distance(a.Lat, a.Long, lat, lng) < Distance(b.Lat, b.Long, lat, lng)

\* sortStoresByDistance (store.go:347-359): the orders it can leave stores
\* in, as orders of the indices of stores. The cut of its last lines is of
\* its own slice header and does not reach the caller.
sortStoresByDistance(sts, zipCode) ==
    LET coords == zipCoord(zipCode)
        lat == coords.Lat
        lng == coords.Long
    IN  sortedOrders(1..Len(sts),
                     {p \in (1..Len(sts)) \X (1..Len(sts)) :
                        storeLess(sts[p[1]], sts[p[2]], lat, lng)})

\* store.go:121-123.
cutStores(sts) ==
    IF Len(sts) > queryStoresLimit THEN SubSeq(sts, 1, queryStoresLimit) ELSE sts

\* A variant of rankedStores that cuts the list before it sorts it.
rankedStoresCutFirst(sts, zipCode) ==
    {Permute(cutStores(sts), o) : o \in sortStoresByDistance(cutStores(sts), zipCode)}

\* store.go:118-123: the lists QueryStores can hold after the sort and the cut.
rankedStores(sts, zipCode) ==
    {cutStores(Permute(sts, o)) : o \in sortStoresByDistance(sts, zipCode)}

\* The ID of the k-th store of the Store kind, in key order.
RankStoreID(k) == "s" \o ToString(k)

\* The entities of the Store kind in the order the query of store.go:101-116
\* delivers them.
fetchStores ==
    [k \in 1..Cardinality(DOMAIN stores) |-> stores[RankStoreID(k)]]

\* QueryStores (store.go:77-139) on a request of user userID under the fault
\* `fault`: the answers it can give. A stored address that does not parse
\* ends the process (log.Fatalf, store.go:127-131).
queryStores(userID, fault) ==
    LET req == [UserID |-> userID]
        u == GetUserInStorage(userID, IF fault = "user" THEN "rpc" ELSE "none")
        fail(status, err) == {QueryDone("QueryStores", req, u.user, status, err, <<>>)}
    IN  IF fault = "decode"
        THEN {QueryDone("QueryStores", req, ZeroUser, StatusBadRequest,
                        Err("failed to decode request body in json", 0, <<>>, ""), <<>>)}
        ELSE IF userID = ""
        THEN fail(StatusBadRequest, Err("missing user id", 0, <<>>, ""))
        ELSE IF u.err # NoErr
        THEN fail(StatusInternalServerError,
                  Err("failed to check user creds", 0, <<>>, u.err.kind))
        ELSE IF ~u.ok THEN fail(StatusForbidden, Err("user id is invalid", 0, <<>>, ""))
        ELSE IF fault = "client"
        THEN fail(StatusInternalServerError, Err("storage client", 0, <<>>, ""))
        ELSE IF fault = "query"
        THEN fail(StatusInternalServerError,
                  Err("failed to query for all stores", 0, <<>>, ""))
        ELSE {IF \E i \in 1..Len(sts) : parseAddressComponents(sts[i].Addr).err # NoErr
              THEN [QueryDone("QueryStores", req, u.user, 0, NoErr, <<>>)
                       EXCEPT !.pc = "fatal"]
              ELSE IF fault = "encode"
              THEN QueryDone("QueryStores", req, u.user, StatusInternalServerError,
                             Err("failed to encode response in json", 0, <<>>, ""), <<>>)
              ELSE QueryDone("QueryStores", req, u.user, StatusOK, NoErr,
                             [i \in 1..Len(sts) |->
                                QueryStoreInfo(sts[i],
                                               parseAddressComponents(sts[i].Addr).addr)]) :
                sts \in rankedStores(fetchStores, u.user.ZipCode)}

\* --------------------------------------------------- the query handlers

\* A QueryItems request for one of `names` arrives and is answered; parseItem
\* reads the clock.
\* A fault strikes a request of user u1 for item "a".
QueryItemsNamed(c, names) ==
    /\ call[c].pc = "idle"
    /\ nreq = c - 1
    /\ nreq' = nreq + 1
    /\ \E userID \in ReqUserIDs, itemName \in names, fault \in QueryFaults,
          t \in {7200, 9000} :
         /\ t >= clock
         /\ fault # "none" => (userID = "u1" /\ itemName = <<"a">>)
         /\ \E out \in queryItems([UserID |-> userID, ItemName |-> itemName], fault, t) :
              /\ call' = [call EXCEPT ![c] = out.call]
              /\ hist' = [hist EXCEPT ![c] = out.hist]
              /\ clock' = IF out.hist.now = 0 THEN clock ELSE t
    /\ UNCHANGED <<users, stores, items>>

\* The same, the item name being one of QueryItemNames.
QueryItems(c) == QueryItemsNamed(c, QueryItemNames)

\* A QueryStores request arrives and is answered. A fault strikes a request
\* of user u1.
QueryStores(c) ==
    /\ call[c].pc = "idle"
    /\ nreq = c - 1
    /\ nreq' = nreq + 1
    /\ \E userID \in ReqUserIDs, fault \in QueryFaults :
         /\ fault # "none" => userID = "u1"
         /\ \E out \in queryStores(userID, fault) :
              call' = [call EXCEPT ![c] = out]
    /\ hist' = [hist EXCEPT ![c] = QueryHist(0, <<>>)]
    /\ UNCHANGED <<users, stores, items, clock>>

\* ------------------------------------------- the storage the queries read

\* Largest number of entities of the Store kind.
MaxStores == 11
\* Largest number of stock reports of the stored item.
MaxReports == 3

\* The k-th store of the Store kind: stores along the equator, two of them at
\* the poles, some at the coordinates of another.
RankStore(k) ==
    LET long == <<0, 60, -60, 120, -120, 180, 0, 0, -180, 0, 60>>
        at == ((k - 1) % 11) + 1
        lat == IF at = 7 THEN 90 ELSE IF at = 8 THEN -90 ELSE 0
    IN  Store(RankStoreID(k), "Costco", "1 Main St, Kirkland, WA 98033", lat, long[at])

\* The stock reports an item can hold of the first stores: store, flag and
\* time of the one upload that made it, by user u1.
RankReports ==
    {StockReport(<<User("u1", "", "", "", r[2])>>, RankStore(r[1]), r[2], r[3], 1) :
        r \in {<<1, 0, TRUE>>, <<2, 1800, TRUE>>, <<3, 3600, TRUE>>, <<4, 3600, FALSE>>}}

\* The report sequences item "a" can hold: up to MaxReports of RankReports,
\* in any order of arrival.
RankReportSeqs ==
    {s \in SeqsUpTo(RankReports, MaxReports) :
        \A i, j \in 1..Len(s) : i # j => s[i] # s[j]}

\* Storage as uploads and AddStore calls can have left it: user u1, whose zip
\* code is in the reference table, and user u2, whose zip code is not;
\* either some stores and no item, or four stores and item "a" with reports
\* about them.
InitRank ==
    /\ users = [u \in {"u1", "u2"} |->
                  User(u, "Tony", "Stark", IF u = "u1" THEN "98109" ELSE "00000", 1)]
    /\ \E n \in 0..MaxStores, reports \in RankReportSeqs :
         /\ reports # <<>> => n = 4
         /\ stores = [id \in {RankStoreID(k) : k \in 1..n} |->
                        RankStore(CHOOSE k \in 1..n : RankStoreID(k) = id)]
         /\ items = IF reports = <<>> THEN <<>>
                    ELSE <<"a">> :> Item(<<"a">>, reports)
    /\ clock = 3600
    /\ call = [c \in Callers |-> IdleCall]
    /\ hist = [c \in Callers |-> IdleHist]
    /\ nreq = 0

NextRank ==
    \/ \E c \in Callers : QueryItems(c)
    \/ \E c \in Callers : QueryStores(c)

SpecRank == InitRank /\ [][NextRank]_vars


\* ======================================================================
\* Properties
\* ======================================================================

\* Handler c has finished a unit of work and not yet started the next one or
\* left the loop's function: hist[c] describes that unit.
UnitEnded(c) == call[c].pc \in {"get", "ret"} /\ hist[c].unit # <<>>

\* The history entry of the latest unit of handler c.
LastUnit(c) == hist[c].log[Len(hist[c].log)]

\* Handler c has finished a unit that RunInTransaction reported as succeeded.
UnitSucceeded(c) == UnitEnded(c) /\ ~LastUnit(c).failed

\* No other handler has written the unit's key since the unit's Get.
Alone(c) == ~hist[c].interfered

\* The item the latest unit of handler c got, as the closure holds it.
Fetched(c) ==
    IF hist[c].fetched = <<>> THEN Item(hist[c].unit, <<>>) ELSE hist[c].fetched[1]

\* The index, in the reports of item, of the report for the store and flag of
\* the latest unit of handler c (0: none), and for the same store and the
\* other flag.
ReportAt(item, c) ==
    findReport(item.StockReports, 1, call[c].store, LastUnit(c).inStock)
OtherFlagAt(item, c) ==
    findReport(item.StockReports, 1, call[c].store, ~LastUnit(c).inStock)

\* The user IDs of the observers of report sr.
Observers(sr) == {sr.UsersInfo[j].UserID : j \in 1..Len(sr.UsersInfo)}

\* The item stored under the key of the latest unit of handler c holds a report
\* for the unit's store and flag with the unit's user among its observers.
Contributed(c) ==
    /\ hist[c].unit \in DOMAIN items
    /\ LET item == items[hist[c].unit] IN
       /\ ReportAt(item, c) # 0
       /\ call[c].user.UserID \in Observers(item.StockReports[ReportAt(item, c)])

\* The item that running the latest unit of handler d on the item the latest
\* unit of handler c got, after the unit of c, would store.
Serial(c, d) ==
    applyReport(applyReport(Fetched(c), call[c].store, call[c].user, call[c].now,
                            LastUnit(c).inStock),
                call[d].store, call[d].user, call[d].now, LastUnit(d).inStock)

\* Every stored report.
StoredReports ==
    UNION {{items[k].StockReports[i] : i \in 1..Len(items[k].StockReports)} :
             k \in DOMAIN items}

\* C1 (as claimed): when two handlers have each finished a successful unit of
\* work on the same item key, the stored item is what the two units, run one
\* after the other in one of the two orders, would have stored, and it holds
\* the contribution of both.
C1_NoLostUpdate ==
    \A c \in Callers, d \in Callers :
        (c # d /\ UnitSucceeded(c) /\ UnitSucceeded(d) /\ hist[c].unit = hist[d].unit)
        => /\ Stored(hist[c].unit) \in {<<Serial(c, d)>>, <<Serial(d, c)>>}
           /\ Contributed(c)
           /\ Contributed(d)

\* C2: every stored report's seen count is the number of distinct user IDs
\* among its observers, and no user ID is there twice.
C2_SeenCntIsDistinctObservers ==
    \A sr \in StoredReports :
        /\ sr.SeenCnt = Cardinality(Observers(sr))
        /\ Len(sr.UsersInfo) = Cardinality(Observers(sr))

\* C2's case: a stored report that two users were merged into, written while
\* another handler was working on the same item.
C2_Witness ==
    \E c \in Callers :
        /\ UnitSucceeded(c)
        /\ hist[c].interfered
        /\ \E sr \in StoredReports : sr.SeenCnt = 2

\* C3: an item holds at most one report for a store ID and a flag.
C3_OneReportPerStoreAndFlag ==
    \A k \in DOMAIN items :
        \A i \in 1..Len(items[k].StockReports), j \in 1..Len(items[k].StockReports) :
            (/\ items[k].StockReports[i].StoreInfo.StoreID
                  = items[k].StockReports[j].StoreInfo.StoreID
             /\ items[k].StockReports[i].InStock = items[k].StockReports[j].InStock)
            => i = j

\* C3's case: a handler has reported a store and flag the item already had a
\* report for, and the item still holds one report.
C3_Witness ==
    \E c \in Callers :
        /\ UnitSucceeded(c)
        /\ ReportAt(Fetched(c), c) # 0
        /\ hist[c].unit \in DOMAIN items
        /\ Len(items[hist[c].unit].StockReports) = 1


\* The report for the store and flag of the latest unit of handler c, in the
\* item that unit got and in the item now stored under its key.
ReportBefore(c) == Fetched(c).StockReports[ReportAt(Fetched(c), c)]
ReportAfter(c) ==
    items[hist[c].unit].StockReports[ReportAt(items[hist[c].unit], c)]

\* The latest unit of handler c succeeded with no other writer on its key, and
\* the item it got held a report for its store and flag.
MergedAlone(c) ==
    /\ UnitSucceeded(c)
    /\ Alone(c)
    /\ ReportAt(Fetched(c), c) # 0

\* The same, the item it got holding no report for its store and flag.
AppendedAlone(c) ==
    /\ UnitSucceeded(c)
    /\ Alone(c)
    /\ ReportAt(Fetched(c), c) = 0

\* The entry a unit of handler c adds to an observer list.
Observer(c) == User(call[c].user.UserID, "", "", "", call[c].now)

\* C4: a report by a user who is already an observer of the report for that
\* store and flag leaves the report's seen count and observer list as they
\* were, the user being there once.
C4_IdempotentReReport ==
    \A c \in Callers :
        (MergedAlone(c) /\ call[c].user.UserID \in Observers(ReportBefore(c)))
        => /\ hist[c].unit \in DOMAIN items
           /\ ReportAt(items[hist[c].unit], c) # 0
           /\ ReportAfter(c).SeenCnt = ReportBefore(c).SeenCnt
           /\ ReportAfter(c).UsersInfo = ReportBefore(c).UsersInfo
           /\ Cardinality({j \in 1..Len(ReportAfter(c).UsersInfo) :
                             ReportAfter(c).UsersInfo[j].UserID = call[c].user.UserID}) = 1

\* C4's case: the same user has reported the same item, store and flag a
\* second time, and the seen count is 1.
C4_Witness ==
    \E c \in Callers :
        /\ MergedAlone(c)
        /\ Observers(ReportBefore(c)) = {call[c].user.UserID}
        /\ ReportAfter(c).SeenCnt = 1

\* C5: a report by a user who is not yet an observer of the report for that
\* store and flag appends the user, at the upload's time, to the observer list
\* and adds 1 to the seen count; with no report for the store and flag yet,
\* the seen count becomes 1 and the user the only observer. So the second of
\* two users to report has seen count 2 and both users as observers.
C5_DistinctObserverIncrement ==
    \A c \in Callers :
        /\ (MergedAlone(c) /\ call[c].user.UserID \notin Observers(ReportBefore(c)))
           => /\ hist[c].unit \in DOMAIN items
              /\ ReportAt(items[hist[c].unit], c) # 0
              /\ ReportAfter(c).SeenCnt = ReportBefore(c).SeenCnt + 1
              /\ ReportAfter(c).UsersInfo = Append(ReportBefore(c).UsersInfo, Observer(c))
        /\ AppendedAlone(c)
           => /\ hist[c].unit \in DOMAIN items
              /\ ReportAt(items[hist[c].unit], c) # 0
              /\ ReportAfter(c).SeenCnt = 1
              /\ ReportAfter(c).UsersInfo = <<Observer(c)>>

\* C5's case: a second user has reported the same item, store and flag: the
\* seen count is 2 and both users are observers.
C5_Witness ==
    \E c \in Callers :
        /\ MergedAlone(c)
        /\ ReportBefore(c).SeenCnt = 1
        /\ call[c].user.UserID \notin Observers(ReportBefore(c))
        /\ ReportAfter(c).SeenCnt = 2
        /\ Observers(ReportAfter(c)) = {"u1", "u2"}

\* C6: a report of an item at a store with one flag, the item holding a report
\* for that store with the other flag, leaves that other report as it was and
\* the item with one report for each flag at that store.
C6_AvailabilitySeparation ==
    \A c \in Callers :
        (UnitSucceeded(c) /\ Alone(c) /\ OtherFlagAt(Fetched(c), c) # 0)
        => /\ hist[c].unit \in DOMAIN items
           /\ LET before == Fetched(c)
                  after == items[hist[c].unit]
              IN  /\ OtherFlagAt(after, c) # 0
                  /\ ReportAt(after, c) # 0
                  /\ ReportAt(after, c) # OtherFlagAt(after, c)
                  /\ after.StockReports[OtherFlagAt(after, c)]
                       = before.StockReports[OtherFlagAt(before, c)]
                  /\ after.StockReports[ReportAt(after, c)].InStock = LastUnit(c).inStock

\* C6's case: an item reported in stock at a store has then been reported out
\* of stock there, and holds two reports.
C6_Witness ==
    \E c \in Callers :
        /\ UnitSucceeded(c)
        /\ Alone(c)
        /\ ~LastUnit(c).inStock
        /\ OtherFlagAt(Fetched(c), c) # 0
        /\ ReportAt(Fetched(c), c) = 0
        /\ Len(items[hist[c].unit].StockReports) = 2


\* The history entries of the list handler c is working on, in order.
ListLog(c) ==
    LET thisList(e) == e.inStock = call[c].checkInStock
    IN  SelectSeq(hist[c].log, thisList)

\* The indices of the failed entries of log, and the first of them.
FailedIn(log) == {i \in 1..Len(log) : log[i].failed}
FirstFailedIn(log) == CHOOSE i \in FailedIn(log) : \A j \in FailedIn(log) : i <= j

\* C7: when handleUploadToItems is over, every item name of its list has had
\* its unit of work, in list order, whatever failed before it; errFreq is the
\* number of units that failed and errResult the error of the first of them
\* (nil when none failed); the error answered carries that number and that
\* item; and a unit that succeeds has put its item, which, no other handler
\* writing the key, is then stored with the report made.
C7_BestEffortBatch ==
    \A c \in Callers :
        /\ call[c].pc = "ret"
           => LET log == ListLog(c) IN
              /\ [i \in 1..Len(log) |-> log[i].name] = Names(call[c])
              /\ call[c].errFreq = Cardinality(FailedIn(log))
              /\ FailedIn(log) = {} => call[c].errResult = NoErr
              /\ FailedIn(log) # {}
                   => call[c].errResult.item = log[FirstFailedIn(log)].name
        /\ (call[c].pc = "done" /\ call[c].err.kind = "Encountered failures, recorded the first one")
           => /\ FailedIn(hist[c].log) # {}
              /\ call[c].err.count = Cardinality(FailedIn(hist[c].log))
              /\ call[c].err.item = hist[c].log[FirstFailedIn(hist[c].log)].name
        /\ \A i \in 1..Len(hist[c].log) : ~hist[c].log[i].failed => hist[c].log[i].put
        /\ (UnitSucceeded(c) /\ Alone(c)) => Contributed(c)

\* C7's case: of a list of two item names the first unit failed and the
\* second succeeded: one failure is counted, the error is the first item's,
\* and the second item is stored.
C7_Witness ==
    \E c \in Callers :
        /\ call[c].pc = "ret"
        /\ Len(ListLog(c)) = 2
        /\ ListLog(c)[1].failed
        /\ ~ListLog(c)[2].failed
        /\ call[c].errFreq = 1
        /\ call[c].errResult.item = ListLog(c)[1].name
        /\ Alone(c)
        /\ Contributed(c)

\* The request of handler c has been answered after passing validation and the
\* lookups.
Answered(c) ==
    /\ call[c].pc = "done"
    /\ Len(call[c].req.InStock) + Len(call[c].req.OutStock) > 0

\* The item names of the cleaned request of handler c, and those of them a
\* unit of work has put.
RequestNames(c) ==
    {call[c].req.InStock[i] : i \in 1..Len(call[c].req.InStock)}
    \cup {call[c].req.OutStock[i] : i \in 1..Len(call[c].req.OutStock)}
AppliedNames(c) == {hist[c].log[i].name : i \in {j \in 1..Len(hist[c].log) : hist[c].log[j].put}}

\* C8 (as claimed): when a request that passed validation and the lookups is
\* answered, every item name of its out-of-stock list has had its unit of
\* work, whatever failed among the in-stock items.
C8_OutOfStockAlwaysAttempted ==
    \A c \in Callers :
        Answered(c)
        => \A i \in 1..Len(call[c].req.OutStock) :
             \E j \in 1..Len(hist[c].log) :
                /\ hist[c].log[j].name = call[c].req.OutStock[i]
                /\ ~hist[c].log[j].inStock

\* The failure count the answer of handler c reports.
ReportedFailures(c) == IF call[c].status = StatusOK THEN 0 ELSE call[c].err.count

\* C9 (as claimed): when a request that passed validation and the lookups is
\* answered, the failure count reported is the number of its item names that
\* were not applied, and success is answered only when that number is zero.
C9_NoSilentDrop ==
    \A c \in Callers :
        Answered(c)
        => /\ ReportedFailures(c) = Cardinality(RequestNames(c) \ AppliedNames(c))
           /\ call[c].status = StatusOK <=> RequestNames(c) \subseteq AppliedNames(c)

\* C10 (as claimed): when a unit of work is reported as failed and no other
\* handler has written its key, the entity stored under the key is what it was
\* when the unit started.
C10_FailedUnitLeavesNoTrace ==
    \A c \in Callers :
        (UnitEnded(c) /\ LastUnit(c).failed /\ Alone(c))
        => Stored(hist[c].unit) = hist[c].fetched


\* The handlers whose unit of work has put the item name key.
PutBy(key) ==
    {c \in Callers : \E i \in 1..Len(hist[c].log) :
                        hist[c].log[i].put /\ hist[c].log[i].name = key}

\* C11: a request with an empty user ID, an empty store ID, no item name or a
\* blank item name is answered 400 with an error and never starts a unit of
\* work; every Item record stored was put by a request that had none of these
\* defects.
C11_InvalidRequestRejected ==
    /\ \A c \in Callers :
         hist[c].entry.invalid
         => /\ call[c].pc = "done"
            /\ call[c].status = StatusBadRequest
            /\ call[c].err # NoErr
            /\ hist[c].log = <<>>
    /\ \A key \in DOMAIN items :
         \E c \in PutBy(key) : hist[c].entry.arrived /\ ~hist[c].entry.invalid

\* C11's case: a request whose first in-stock name is valid and whose second
\* is blank has been refused, and nothing is stored.
C11_Witness ==
    \E c \in Callers :
        /\ hist[c].entry.invalid
        /\ call[c].pc = "done"
        /\ call[c].err.kind = "in-stock item at index is empty"
        /\ call[c].err.count = 1
        /\ items = <<>>

\* The request of handler c passed validation and named a user or a store
\* that storage does not hold, or one of its two lookups failed.
LookupRefused(c) ==
    LET e == hist[c].entry IN
    /\ e.arrived
    /\ ~e.invalid
    /\ \/ ~e.userKnown
       \/ ~e.storeKnown
       \/ e.fault.user # "none"
       \/ e.fault.store # "none"

\* C12: a valid request whose user or store does not exist in storage, or
\* whose user or store lookup fails, is answered with an error (403 or 500)
\* and never starts a unit of work; every report stored is about a store that
\* storage holds, observed by users that storage holds.
C12_LookupFailureRejected ==
    /\ \A c \in Callers :
         LookupRefused(c)
         => /\ call[c].pc = "done"
            /\ call[c].status \in {StatusForbidden, StatusInternalServerError}
            /\ call[c].err # NoErr
            /\ hist[c].log = <<>>
    /\ \A sr \in StoredReports :
         /\ sr.StoreInfo.StoreID \in DOMAIN stores
         /\ sr.StoreInfo = stores[sr.StoreInfo.StoreID]
         /\ Observers(sr) \subseteq DOMAIN users

\* C12's case: a valid request of a known user names a store that storage
\* does not hold; it has been answered with an error while another request
\* has stored an item.
C12_Witness ==
    \E c \in Callers :
        /\ LookupRefused(c)
        /\ hist[c].entry.userKnown
        /\ ~hist[c].entry.storeKnown
        /\ hist[c].entry.fault.store = "none"
        /\ call[c].pc = "done"
        /\ call[c].status = StatusInternalServerError
        /\ items # <<>>

\* What the caller of handler c is answered: the status and the error, less
\* the text of the cause the error wraps.
Outcome(c) == <<call[c].status, call[c].err.kind>>

\* The request of handler c passed validation and came to the lookup `which`
\* with no fault before it; the lookup found no entity (missing) or failed.
AtLookup(c, which, missing, failed) ==
    LET e == hist[c].entry IN
    /\ e.arrived /\ ~e.invalid /\ call[c].pc = "done"
    /\ IF which = "user"
       THEN /\ e.userKnown = ~missing
            /\ e.fault.user = (IF failed THEN "rpc" ELSE "none")
       ELSE /\ e.userKnown /\ e.fault.user = "none"
            /\ e.storeKnown = ~missing
            /\ e.fault.store = (IF failed THEN "rpc" ELSE "none")

\* C13 (as claimed): the answer to a request naming a user, or a store, that
\* does not exist differs from the answer to a request whose lookup of the
\* user, or the store, failed in the storage layer.
C13_NotFoundDistinguished ==
    \A c, d \in Callers :
        /\ (AtLookup(c, "user", TRUE, FALSE) /\ AtLookup(d, "user", FALSE, TRUE))
           => Outcome(c) # Outcome(d)
        /\ (AtLookup(c, "store", TRUE, FALSE) /\ AtLookup(d, "store", FALSE, TRUE))
           => Outcome(c) # Outcome(d)


\* The report sr is kept in the report sequence reports: a report for the
\* same store and flag is there, seen by no fewer users.
KeptIn(sr, reports) ==
    \E j \in 1..Len(reports) :
        /\ reports[j].StoreInfo.StoreID = sr.StoreInfo.StoreID
        /\ reports[j].InStock = sr.InStock
        /\ reports[j].SeenCnt >= sr.SeenCnt
        /\ Observers(sr) \subseteq Observers(reports[j])

\* C19 (as claimed): no step removes a stored item, or a report of a stored
\* item, or lowers a report's seen count, or removes one of its observers.
C19_ReportsNeverDeleted ==
    [][\A key \in DOMAIN items :
          /\ key \in DOMAIN items'
          /\ \A i \in 1..Len(items[key].StockReports) :
                KeptIn(items[key].StockReports[i], items'[key].StockReports)]_vars

\* The item keys whose stored entity a step creates, changes or removes.
ChangedKeys ==
    {key \in DOMAIN items \cup DOMAIN items' :
        \/ key \notin DOMAIN items
        \/ key \notin DOMAIN items'
        \/ items'[key] # items[key]}

\* C20: no step changes a User or a Store entity, and a step changes at most
\* one Item entity: the one keyed by the item name of a unit of work that puts
\* in this step, which becomes the item the unit has built.
C20_FrameOfAggregation ==
    [][/\ users' = users
       /\ stores' = stores
       /\ Cardinality(ChangedKeys) <= 1
       /\ \A key \in ChangedKeys :
            \E c \in Callers :
                /\ call[c].pc = "put"
                /\ Key(call[c]) = key
                /\ key \in DOMAIN items'
                /\ items'[key] = call[c].item
                /\ Len(hist'[c].log) = Len(hist[c].log) + 1
                /\ hist'[c].log[Len(hist'[c].log)].put]_vars

\* C20's case: a unit of work has succeeded on one item while another item is
\* stored.
C20_Witness ==
    \E c \in Callers :
        /\ UnitSucceeded(c)
        /\ Alone(c)
        /\ Contributed(c)
        /\ Cardinality(DOMAIN items) = 2


\* ---------------------------------------------------------------- ranking

\* Handler c has answered a query of kind op with 200.
Ranked(c, op) ==
    /\ call[c].pc = "done"
    /\ call[c].op = op
    /\ call[c].status = StatusOK

\* The distance from the store of an ItemInfo, and of a QueryStoreInfo, to
\* the coordinate origin.
ItemDist(info, origin) == Distance(info.StoreLat, info.StoreLng, origin.Lat, origin.Long)
StoreDist(info, origin) ==
    Distance(info.Store.Lat, info.Store.Long, origin.Lat, origin.Long)

\* The stock reports of the item handler c has asked for, and the results
\* made of them at the time the handler read the clock.
AskedReports(c) ==
    IF call[c].req.ItemName \in DOMAIN items
    THEN items[call[c].req.ItemName].StockReports ELSE <<>>
AskedInfos(c) ==
    parseItem(Item(call[c].req.ItemName, AskedReports(c)), hist[c].now)

\* The stores of a QueryStores response.
Returned(c) == {call[c].resp[i].Store : i \in 1..Len(call[c].resp)}

\* The sequence of distances ds is in ascending order.
Ascending(ds) == \A i, j \in 1..Len(ds) : i < j => ds[i] <= ds[j]

\* C14: a response of QueryItems, and of QueryStores, lists its results in
\* ascending order of the distance from the result's store to the coordinate
\* of the requester's zip code; the response of QueryItems holds the results
\* fetched, each as many times as fetched, and the response of QueryStores
\* over no more stores than the limit holds every store once.
C14_DistanceMonotonicity ==
    \A c \in Callers :
        LET origin == zipCoord(call[c].user.ZipCode) IN
        /\ Ranked(c, "QueryItems")
           => /\ Ascending([i \in 1..Len(call[c].resp) |-> ItemDist(call[c].resp[i], origin)])
              /\ Len(call[c].resp) = Len(AskedInfos(c))
              /\ \A i \in 1..Len(AskedInfos(c)) :
                    Count(call[c].resp, AskedInfos(c)[i])
                        = Count(AskedInfos(c), AskedInfos(c)[i])
        /\ Ranked(c, "QueryStores")
           => /\ Ascending([i \in 1..Len(call[c].resp) |-> StoreDist(call[c].resp[i], origin)])
              /\ Cardinality(DOMAIN stores) <= queryStoresLimit
                 => /\ Len(call[c].resp) = Cardinality(DOMAIN stores)
                    /\ Returned(c) = {stores[id] : id \in DOMAIN stores}

\* C14's case: three stores delivered in the order s1, s2, s3 are returned
\* nearest first, s3 before s1 before s2, at three different distances.
C14_Witness ==
    \E c \in Callers :
        /\ Ranked(c, "QueryStores")
        /\ Len(call[c].resp) = 3
        /\ call[c].resp[1].Store.StoreID = "s3"
        /\ LET origin == zipCoord(call[c].user.ZipCode) IN
           /\ StoreDist(call[c].resp[1], origin) < StoreDist(call[c].resp[2], origin)
           /\ StoreDist(call[c].resp[2], origin) < StoreDist(call[c].resp[3], origin)

\* The time of the stock report behind the i-th result of the QueryItems
\* response of handler c.
ResultTime(c, i) == AskedReports(c)[hist[c].order[i]].TimestampSec

\* C15 (as claimed): of two results of a QueryItems response at the same
\* distance from the origin whose reports have different timestamps, the one
\* with the later timestamp comes first.
C15_TieBreakByRecency ==
    \A c \in Callers :
        Ranked(c, "QueryItems")
        => LET origin == zipCoord(call[c].user.ZipCode) IN
           \A i, j \in 1..Len(call[c].resp) :
              (/\ i < j
               /\ ItemDist(call[c].resp[i], origin) = ItemDist(call[c].resp[j], origin)
               /\ ResultTime(c, i) # ResultTime(c, j))
              => ResultTime(c, i) > ResultTime(c, j)

\* C16 (as claimed): two queries of the same kind for the same results and
\* the same origin, read at the same time, are answered with the results in
\* the same order.
C16_DeterministicRanking ==
    \A c, d \in Callers :
        \A op \in {"QueryItems", "QueryStores"} :
            (/\ Ranked(c, op)
             /\ Ranked(d, op)
             /\ call[c].req = call[d].req
             /\ hist[c].now = hist[d].now)
            => call[c].resp = call[d].resp

\* The smaller of two numbers.
Min(a, b) == IF a < b THEN a ELSE b

\* C17: a response of QueryStores holds min(n, 10) of the n stores stored,
\* each once, in ascending order of distance to the origin, and no store left
\* out is nearer to the origin than a store returned.
C17_TopKTruncation ==
    \A c \in Callers :
        Ranked(c, "QueryStores")
        => LET origin == zipCoord(call[c].user.ZipCode)
               all == {stores[id] : id \in DOMAIN stores}
           IN  /\ Len(call[c].resp) = Min(Cardinality(DOMAIN stores), queryStoresLimit)
               /\ Cardinality(Returned(c)) = Len(call[c].resp)
               /\ Returned(c) \subseteq all
               /\ Ascending([i \in 1..Len(call[c].resp) |->
                               StoreDist(call[c].resp[i], origin)])
               /\ \A out \in all \ Returned(c) : \A i \in 1..Len(call[c].resp) :
                     StoreDist([Store |-> out], origin) >= StoreDist(call[c].resp[i], origin)

\* C17's case: of eleven stores ten are returned, the store delivered last
\* among them, a farther one left out.
C17_Witness ==
    \E c \in Callers :
        /\ Ranked(c, "QueryStores")
        /\ Cardinality(DOMAIN stores) = queryStoresLimit + 1
        /\ Len(call[c].resp) = queryStoresLimit
        /\ stores[RankStoreID(queryStoresLimit + 1)] \in Returned(c)

\* The user of the request of handler c was found in storage and the user's
\* zip code is not in the reference table.
UnknownZip(c) ==
    /\ call[c].pc \in {"done", "fatal"}
    /\ call[c].user.UserID # ""
    /\ call[c].user.ZipCode \notin DOMAIN zipCodeToLatLong

\* C18: a query of a user whose zip code is not in the reference table does
\* not end the process and fails only when the storage client, the storage
\* query or the encoding of the response fails; answered with 200, it lists
\* its results in ascending order of distance to the coordinate (0, 0).
C18_ReferenceDataFallback ==
    \A c \in Callers :
        UnknownZip(c)
        => /\ call[c].pc = "done"
           /\ call[c].status # StatusOK
              => call[c].err.kind \in {"storage client", "failed to query items",
                                       "failed to query for all stores",
                                       "failed to encode response in json"}
           /\ Ranked(c, "QueryItems")
              => Ascending([i \in 1..Len(call[c].resp) |->
                              ItemDist(call[c].resp[i], coord(0, 0))])
           /\ Ranked(c, "QueryStores")
              => Ascending([i \in 1..Len(call[c].resp) |->
                              StoreDist(call[c].resp[i], coord(0, 0))])

\* C18's case: user u2, whose zip code is not in the table, is returned three
\* stores, the one at (0, 0) first.
C18_Witness ==
    \E c \in Callers :
        /\ UnknownZip(c)
        /\ Ranked(c, "QueryStores")
        /\ Len(call[c].resp) = 3
        /\ call[c].resp[1].Store.Lat = 0
        /\ call[c].resp[1].Store.Long = 0
        /\ StoreDist(call[c].resp[1], coord(0, 0)) < StoreDist(call[c].resp[2], coord(0, 0))



\* ======================================================================
\* Request validation on its own
\* ======================================================================

\* The raw item names of the bodies validation is run on: RawNames and the
\* names of a second item, spelled three ways.
CleanRawNames == BatchRawNames \cup { <<" ", "B">>, <<"B">> }

\* The decoded bodies: up to MaxNames raw names in each list.
CleanBodies ==
    {[UserID |-> u, StoreID |-> s, InStock |-> in, OutStock |-> out] :
        u \in {"", "u1"}, s \in {"", "s1"},
        in \in SeqsUpTo(CleanRawNames, MaxNames), out \in SeqsUpTo(CleanRawNames, MaxNames)}

\* UploadReport has decoded a body (report.go:36) and is about to validate it:
\* the body is in the handler's req, and kept in the history as it arrived.
InitClean ==
    /\ users = <<>>
    /\ stores = <<>>
    /\ items = <<>>
    /\ clock = 1
    /\ nreq = 1
    /\ \E body \in CleanBodies :
         /\ call = [c \in Callers |->
                      IF c = 1 THEN [IdleCall EXCEPT !.pc = "decoded", !.req = body]
                      ELSE IdleCall]
         /\ hist = [c \in Callers |-> [raw |-> body]]

\* cleanAndValidateUploadReportReq(&req) (report.go:37-40): the request is
\* rewritten in place, or refused with 400.
Validate(c) ==
    /\ call[c].pc = "decoded"
    /\ LET v == cleanAndValidateUploadReportReq(call[c].req) IN
       call' = [call EXCEPT ![c] =
                  IF v.err # NoErr THEN respond(@, StatusBadRequest, v.err)
                  ELSE [@ EXCEPT !.pc = "validated", !.req = v.req]]
    /\ UNCHANGED <<users, stores, items, clock, hist, nreq>>

NextClean == \E c \in Callers : Validate(c)

SpecClean == InitClean /\ [][NextClean]_vars

\* The key a raw name stands for, and the keys of a raw list.
NameKey(raw) == ToLower(TrimSpace(raw))
NameKeys(rawList) == [i \in 1..Len(rawList) |-> NameKey(rawList[i])]

\* The index at which key k first occurs in the list of keys ks.
FirstAt(ks, k) == CHOOSE i \in 1..Len(ks) : ks[i] = k /\ \A j \in 1..(i - 1) : ks[j] # k

\* The elements of a sequence.
Elems(s) == {s[i] : i \in 1..Len(s)}

\* A name that is not empty, has no upper-case letter and no white space at
\* either end.
CleanName(n) ==
    /\ n # <<>>
    /\ \A i \in 1..Len(n) : n[i] \notin {"A", "B"}
    /\ ~IsSpace(n[1])
    /\ ~IsSpace(n[Len(n)])

\* list holds each of the keys in `wanted` once, in the order in which they
\* first occur in ks.
FirstOccurrences(list, ks, wanted) ==
    /\ Elems(list) = wanted
    /\ Len(list) = Cardinality(wanted)
    /\ \A i, j \in 1..Len(list) : i < j => FirstAt(ks, list[i]) < FirstAt(ks, list[j])

\* C21: a request that validation accepts holds, in both lists, lower-cased
\* and trimmed names, each key of the raw list once and in the order of its
\* first occurrence, a key of the in-stock list being dropped from the
\* out-of-stock list: so the two lists together hold no name twice, and a
\* name has one flag.
C21_CleanedLists ==
    \A c \in Callers :
        call[c].pc = "validated"
        => LET raw == hist[c].raw
               req == call[c].req
               inKeys == NameKeys(raw.InStock)
               outKeys == NameKeys(raw.OutStock)
           IN  /\ \A n \in Elems(req.InStock) \cup Elems(req.OutStock) : CleanName(n)
               /\ FirstOccurrences(req.InStock, inKeys, Elems(inKeys))
               /\ FirstOccurrences(req.OutStock, outKeys, Elems(outKeys) \ Elems(inKeys))
               /\ Elems(req.InStock) \cap Elems(req.OutStock) = {}
               /\ Len(req.InStock \o req.OutStock)
                    = Cardinality(Elems(req.InStock \o req.OutStock))
               /\ req.UserID = raw.UserID
               /\ req.StoreID = raw.StoreID

\* C21's case: a body with one key spelled two ways in the in-stock list, and
\* an out-of-stock list of that key and another one, has been accepted: the
\* in-stock list holds the key once and the out-of-stock list the other key.
C21_Witness ==
    \E c \in Callers :
        /\ call[c].pc = "validated"
        /\ hist[c].raw.InStock = << <<"A", " ">>, <<"a">> >>
        /\ hist[c].raw.OutStock = << <<"a">>, <<" ", "B">> >>
        /\ call[c].req.InStock = << <<"a">> >>
        /\ call[c].req.OutStock = << <<"b">> >>

\* ======================================================================
\* Uploads over stored items
\* ======================================================================

\* The Store entity stored under store ID s: s1 is where zip code 98109 is,
\* s2 sixty degrees of longitude east of it.
StockedStore(s) ==
    Store(s, "Costco", IF s = "s1" THEN "Kirkland" ELSE "Seattle",
          0, IF s = "s1" THEN -120 ELSE -60)

\* Reports as earlier uploads, at time 1, have stored them: one for each store
\* and flag, by one user or by both.
StockedReports ==
    { StockReport(<<User("u1", "", "", "", 1)>>, StockedStore("s1"), 1, TRUE, 1),
      StockReport(<<User("u2", "", "", "", 1)>>, StockedStore("s2"), 1, TRUE, 1),
      StockReport(<<User("u1", "", "", "", 1), User("u2", "", "", "", 1)>>,
                  StockedStore("s1"), 1, FALSE, 2),
      StockReport(<<User("u2", "", "", "", 1)>>, StockedStore("s2"), 1, FALSE, 1) }

\* The sequences of up to MaxReports of them, none twice.
StockedReportSeqs ==
    {q \in SeqsUpTo(StockedReports, MaxReports) :
        \A i, j \in 1..Len(q) : q[i] = q[j] => i = j}

\* Storage after one request, served and answered by the first handler, has
\* left item "a" with some of these reports: the second handler is yet to
\* serve its request, an upload or a query for items.
InitStocked ==
    /\ users = [u \in {"u1", "u2"} |->
                  User(u, IF u = "u1" THEN "Tony" ELSE "Peter",
                          IF u = "u1" THEN "Stark" ELSE "Parker",
                          IF u = "u1" THEN "98109" ELSE "98101", 1)]
    /\ stores = [s \in {"s1", "s2"} |-> StockedStore(s)]
    /\ \E q \in StockedReportSeqs : items = (<<"a">> :> Item(<<"a">>, q))
    /\ clock = 1
    /\ call = [c \in Callers |-> IdleCall]
    /\ hist = [c \in Callers |-> IdleHist]
    /\ nreq = 1

NextStocked ==
    \/ Next
    \/ \E c \in Callers : QueryItems(c)

SpecStocked == InitStocked /\ [][NextStocked]_vars

\* ======================================================================
\* Properties of the stored reports
\* ======================================================================

\* The indices, in the reports of item, of the reports for the store and flag
\* of the latest unit of handler c.
ReportsAt(item, c) ==
    {i \in 1..Len(item.StockReports) :
        /\ item.StockReports[i].StoreInfo.StoreID = call[c].store.StoreID
        /\ item.StockReports[i].InStock = LastUnit(c).inStock}

\* C22: a unit that succeeds, with no other writer on its key, on an item that
\* holds no report for its store and flag (an item not stored yet holds none)
\* leaves the item stored under its name with the reports it had and, after
\* them, one report for that store and flag: the acting user at the upload's
\* time its only observer, last updated at the upload's time, seen count 1.
C22_FirstReportCreated ==
    \A c \in Callers :
        AppendedAlone(c)
        => /\ hist[c].unit \in DOMAIN items
           /\ LET item == items[hist[c].unit]
                  sr == item.StockReports[Len(item.StockReports)]
              IN  /\ item.Name = hist[c].unit
                  /\ Len(item.StockReports) = Len(Fetched(c).StockReports) + 1
                  /\ SubSeq(item.StockReports, 1, Len(item.StockReports) - 1)
                       = Fetched(c).StockReports
                  /\ ReportsAt(item, c) = {Len(item.StockReports)}
                  /\ sr.UsersInfo = <<[UserID |-> call[c].user.UserID, FirstName |-> "",
                                       LastName |-> "", ZipCode |-> "",
                                       TimestampSec |-> call[c].now]>>
                  /\ sr.TimestampSec = call[c].now
                  /\ sr.InStock = LastUnit(c).inStock
                  /\ sr.SeenCnt = 1
                  /\ sr.StoreInfo = call[c].store

\* C22's case: an item stored with one report has got a second one, for
\* another store or flag, at a later time.
C22_Witness ==
    \E c \in Callers :
        /\ AppendedAlone(c)
        /\ hist[c].fetched # <<>>
        /\ Len(Fetched(c).StockReports) = 1
        /\ Len(items[hist[c].unit].StockReports) = 2
        /\ call[c].now > Fetched(c).StockReports[1].TimestampSec

\* C23: a unit that succeeds, with no other writer on its key, on an item that
\* holds a report for its store and flag leaves that report last updated at
\* the upload's time, the user having been an observer of it or not, and every
\* other report of the item last updated when it was before.
C23_MergeRefreshesTimestamp ==
    \A c \in Callers :
        MergedAlone(c)
        => /\ hist[c].unit \in DOMAIN items
           /\ LET before == Fetched(c).StockReports
                  after == items[hist[c].unit].StockReports
              IN  /\ Len(after) = Len(before)
                  /\ \A j \in 1..Len(before) :
                       /\ after[j].StoreInfo.StoreID = before[j].StoreInfo.StoreID
                       /\ after[j].InStock = before[j].InStock
                       /\ after[j].TimestampSec
                            = IF j = ReportAt(Fetched(c), c) THEN call[c].now
                              ELSE before[j].TimestampSec

\* C23's case: a user who was an observer of one of several reports of an item
\* has reported the same store and flag again at a later time: that report has
\* the later time and another one the earlier.
C23_Witness ==
    \E c \in Callers :
        /\ MergedAlone(c)
        /\ call[c].user.UserID \in Observers(ReportBefore(c))
        /\ call[c].now > ReportBefore(c).TimestampSec
        /\ ReportAfter(c).TimestampSec = call[c].now
        /\ \E j \in 1..Len(items[hist[c].unit].StockReports) :
             /\ j # ReportAt(Fetched(c), c)
             /\ items[hist[c].unit].StockReports[j].TimestampSec < call[c].now

\* The observer entries a step adds to the report at index i of item k.
AddedObservers(k, i) ==
    SubSeq(items'[k].StockReports[i].UsersInfo,
           Len(items[k].StockReports[i].UsersInfo) + 1,
           Len(items'[k].StockReports[i].UsersInfo))

\* C24: no step changes an observer entry of a stored report: a report keeps
\* the entries it has, in their places, with their timestamps; an entry a step
\* adds is the entry of the user of the upload it belongs to, who was no
\* observer, at that upload's time.
C24_ObserverTimestampKept ==
    [][\A k \in DOMAIN items :
         /\ k \in DOMAIN items'
         /\ \A i \in 1..Len(items[k].StockReports) :
              /\ i <= Len(items'[k].StockReports)
              /\ LET was == items[k].StockReports[i].UsersInfo
                     is == items'[k].StockReports[i].UsersInfo
                 IN  /\ Len(was) <= Len(is)
                     /\ SubSeq(is, 1, Len(was)) = was
                     /\ Len(is) <= Len(was) + 1
                     /\ \A j \in 1..Len(AddedObservers(k, i)) :
                          /\ AddedObservers(k, i)[j].UserID
                               \notin Observers(items[k].StockReports[i])
                          /\ \E c \in Callers :
                               /\ call[c].pc = "put"
                               /\ AddedObservers(k, i)[j].UserID = call[c].user.UserID
                               /\ AddedObservers(k, i)[j].TimestampSec = call[c].now]_vars

\* C24's case: a user who was an observer of a report since time 1, with
\* another user, has reported the same store and flag again at time 2: the
\* report is last updated at time 2 and both entries are of time 1.
C24_Witness ==
    \E c \in Callers :
        /\ MergedAlone(c)
        /\ call[c].now = 2
        /\ Observers(ReportBefore(c)) = {"u1", "u2"}
        /\ ReportAfter(c).TimestampSec = 2
        /\ \A j \in 1..Len(ReportAfter(c).UsersInfo) :
             ReportAfter(c).UsersInfo[j].TimestampSec = 1

\* The store ID and flag of each report of a sequence.
ReportKeys(reports) ==
    [i \in 1..Len(reports) |-> <<reports[i].StoreInfo.StoreID, reports[i].InStock>>]

\* C25: no step, of an upload or of a query, moves a stored report: an item
\* keeps its reports, by store and flag, in their places, and a step adds at
\* most one report, after them, for a store and flag the item had no report
\* for.
C25_InsertionOrderKept ==
    [][\A k \in DOMAIN items :
         /\ k \in DOMAIN items'
         /\ LET was == ReportKeys(items[k].StockReports)
                is == ReportKeys(items'[k].StockReports)
            IN  \/ is = was
                \/ /\ Len(is) = Len(was) + 1
                   /\ SubSeq(is, 1, Len(was)) = was
                   /\ is[Len(is)] \notin Elems(was)]_vars

\* C25's case: the first of three reports of an item has been merged into at
\* time 2, the other two being of time 1, and is still the first.
C25_Witness ==
    \E c \in Callers :
        /\ MergedAlone(c)
        /\ call[c].now = 2
        /\ Len(Fetched(c).StockReports) = 3
        /\ ReportAt(Fetched(c), c) = 1
        /\ ReportAt(items[hist[c].unit], c) = 1
        /\ items[hist[c].unit].StockReports[2].TimestampSec = 1
        /\ items[hist[c].unit].StockReports[3].TimestampSec = 1

\* ======================================================================
\* Distance in floating point
\* ======================================================================

\* The latitudes and longitudes, in degrees, Distance is measured between.
GridLats == {-90, 0, 90}
GridLongs == {-180, -120, -60, 0, 60, 120, 180}

\* The error of the float64 sum of products of loc_utils.go:50, in units in
\* the last place of 1.0: the sum is the exact value or a float64 next to it,
\* depending on the arguments and on whether the build fuses a multiplication
\* and an addition.
Rounding == {-1, 0, 1}

\* A float64 result: a number, or what math.Acos returns for an argument
\* outside [-1, 1].
Number(val) == [nan |-> FALSE, val |-> val]
NaN == [nan |-> TRUE, val |-> 0]

\* Distance (loc_utils.go:41-61) with the sum rounded by e: the sum is the
\* pair of its exact value, in eighths, and e; it is cut to 1 when it is more
\* than 1; math.Acos of less than -1 is NaN, and NaN times a number is NaN;
\* the result is in hundredths of a mile, a unit in the last place of the sum
\* moving it by 1.
DistanceRounded(lat1, lng1, lat2, lng2, e) ==
    LET theta == lng1 - lng2
        exact == 2 * Sin2(lat1) * Sin2(lat2) + Cos2(lat1) * Cos2(lat2) * Cos2(theta)
        dist == IF exact > 8 \/ (exact = 8 /\ e > 0) THEN <<8, 0>> ELSE <<exact, e>>
    IN  IF dist[1] < -8 \/ (dist[1] = -8 /\ dist[2] < 0) THEN NaN
        ELSE Number(Acos8(dist[1]) * 6909 - dist[2])

\* A caller is about to measure the distance between two points.
InitDistance ==
    /\ users = <<>>
    /\ stores = <<>>
    /\ items = <<>>
    /\ clock = 1
    /\ nreq = 0
    /\ hist = [c \in Callers |-> IdleHist]
    /\ \E lat1 \in GridLats, lng1 \in GridLongs, lat2 \in GridLats, lng2 \in GridLongs :
         call = [c \in Callers |->
                   [pc |-> "measure", lat1 |-> lat1, lng1 |-> lng1,
                    lat2 |-> lat2, lng2 |-> lng2]]

\* Distance(lat1, lng1, lat2, lng2) returns.
Measure(c) ==
    /\ call[c].pc = "measure"
    /\ \E e \in Rounding :
         call' = [call EXCEPT ![c] =
                    [pc |-> "measured", lat1 |-> @.lat1, lng1 |-> @.lng1,
                     lat2 |-> @.lat2, lng2 |-> @.lng2,
                     dist |-> DistanceRounded(@.lat1, @.lng1, @.lat2, @.lng2, e)]]
    /\ UNCHANGED <<users, stores, items, clock, hist, nreq>>

NextDistance == \E c \in Callers : Measure(c)

SpecDistance == InitDistance /\ [][NextDistance]_vars

\* C26 (as claimed): Distance returns a number for any two points, never a
\* negative one, and 0 for a point and itself.
C26_DistanceDefined ==
    \A c \in Callers :
        call[c].pc = "measured"
        => /\ ~call[c].dist.nan
           /\ call[c].dist.val >= 0
           /\ (call[c].lat1 = call[c].lat2 /\ call[c].lng1 = call[c].lng2)
              => call[c].dist.val = 0

\* ======================================================================
\* An upload, then a query for items
\* ======================================================================

\* The raw item names a query carries: those an upload carries, and "A".
ShopQueryNames == RawNames \cup { <<"A">> }

\* Nothing is stored but the users and the stores; no request has arrived.
InitShop ==
    /\ users = [u \in {"u1", "u2"} |->
                  User(u, IF u = "u1" THEN "Tony" ELSE "Peter",
                          IF u = "u1" THEN "Stark" ELSE "Parker",
                          IF u = "u1" THEN "98109" ELSE "98101", 1)]
    /\ stores = [s \in {"s1", "s2"} |-> StockedStore(s)]
    /\ items = <<>>
    /\ clock = 1
    /\ call = [c \in Callers |-> IdleCall]
    /\ hist = [c \in Callers |-> IdleHist]
    /\ nreq = 0

\* The first handler serves an upload; once it has answered, the second
\* serves a query for items.
NextShop ==
    \/ UploadReport(1)
    \/ TxGet(1)
    \/ TxPut(1)
    \/ Return(1)
    \/ call[1].pc = "done" /\ QueryItemsNamed(2, ShopQueryNames)

SpecShop == InitShop /\ [][NextShop]_vars

\* Handler c has answered a QueryItems request with 200. Of the raw item name
\* it keeps the lower-cased one, which stands for the same key.
ItemsAnswered(c) ==
    /\ call[c].pc = "done"
    /\ "op" \in DOMAIN call[c]
    /\ call[c].op = "QueryItems"
    /\ call[c].status = StatusOK

\* C27 (as claimed): a query for items by a raw name that stands for the key
\* of a stored item, once trimmed and lower-cased, returns the reports of that
\* item.
C27_QueryFindsUploadedItem ==
    \A c \in Callers :
        (ItemsAnswered(c) /\ NameKey(call[c].req.ItemName) \in DOMAIN items)
        => /\ call[c].resp # <<>>
           /\ Len(call[c].resp) = Len(items[NameKey(call[c].req.ItemName)].StockReports)

\* ======================================================================
\* QueryStores over stored addresses
\* ======================================================================

\* An address as AddStore can have stored it (store.go:323, 341: the formatted
\* address the Places API returned) that validAddress does not match: it has
\* no street part.
UnmatchedAddress == "Seattle, WA 98101"

\* Three stores are stored, any of them with such an address.
InitAddress ==
    /\ users = [u \in {"u1", "u2"} |->
                  User(u, "Tony", "Stark", IF u = "u1" THEN "98109" ELSE "00000", 1)]
    /\ \E unmatched \in SUBSET (1..3) :
         stores = [id \in {RankStoreID(k) : k \in 1..3} |->
                     LET k == CHOOSE k \in 1..3 : RankStoreID(k) = id IN
                     IF k \in unmatched
                     THEN [RankStore(k) EXCEPT !.Addr = UnmatchedAddress]
                     ELSE RankStore(k)]
    /\ items = <<>>
    /\ clock = 3600
    /\ call = [c \in Callers |-> IdleCall]
    /\ hist = [c \in Callers |-> IdleHist]
    /\ nreq = 0

\* QueryStores requests arrive while the process runs: log.Fatalf
\* (store.go:129) ends it.
NextAddress ==
    /\ \A d \in Callers : call[d].pc # "fatal"
    /\ \E c \in Callers : QueryStores(c)

SpecAddress == InitAddress /\ [][NextAddress]_vars

\* C28 (as claimed): QueryStores does not end the process, and a request it
\* answers with 200 has in its response every stored store, fewer than
\* queryStoresLimit being stored, whose address validAddress matches.
C28_QueryStoresKeepsServing ==
    \A c \in Callers :
        /\ call[c].pc # "fatal"
        /\ Ranked(c, "QueryStores")
           => Returned(c) = {stores[id] : id \in {i \in DOMAIN stores :
                                                     validAddress(stores[i].Addr)}}

\* The User entities that differ from user at most in first name, last name
\* and zip code.
Renamed(user) ==
    {[user EXCEPT !.FirstName = first, !.LastName = last, !.ZipCode = zip] :
        first \in {user.FirstName, "Bruce"}, last \in {user.LastName, "Banner"},
        zip \in {user.ZipCode, "10001"}}

\* C30: an observer entry of a stored report holds a user ID and a timestamp
\* and nothing else of the user, and the item a unit of work is about to put
\* is the one it would put for a user of the same ID with another first name,
\* last name or zip code.
C30_ObserverEntriesAnonymous ==
    /\ \A sr \in StoredReports :
         \A j \in 1..Len(sr.UsersInfo) :
             /\ sr.UsersInfo[j].FirstName = ""
             /\ sr.UsersInfo[j].LastName = ""
             /\ sr.UsersInfo[j].ZipCode = ""
    /\ \A c \in Callers :
         call[c].pc = "put"
         => \A other \in Renamed(call[c].user) :
              call[c].item = applyReport(Fetched(c), call[c].store, other, call[c].now,
                                         call[c].checkInStock)

\* C30's case: a user whose entity holds a first name, a last name and a zip
\* code has joined, at time 2, the report of another user.
C30_Witness ==
    \E c \in Callers :
        /\ MergedAlone(c)
        /\ call[c].user.FirstName = "Peter"
        /\ call[c].user.LastName = "Parker"
        /\ call[c].user.ZipCode = "98101"
        /\ call[c].now = 2
        /\ ReportAfter(c).UsersInfo
             = <<User("u1", "", "", "", 1), User("u2", "", "", "", 2)>>

\* ======================================================================
\* Two uploads, one after the other
\* ======================================================================

\* The reports item "a" holds before the two uploads: one that user u1 made
\* and one that both users have contributed to.
PairSeed ==
    <<"a">> :>
      Item(<<"a">>,
           << StockReport(<<User("u1", "", "", "", 1)>>, StockedStore("s1"), 1, TRUE, 1),
              StockReport(<<User("u1", "", "", "", 1), User("u2", "", "", "", 1)>>,
                          StockedStore("s1"), 1, FALSE, 2) >>)

InitPair ==
    /\ users = [u \in {"u1", "u2"} |->
                  User(u, IF u = "u1" THEN "Tony" ELSE "Peter",
                          IF u = "u1" THEN "Stark" ELSE "Parker",
                          IF u = "u1" THEN "98109" ELSE "98101", 1)]
    /\ stores = [s \in {"s1", "s2"} |-> StockedStore(s)]
    /\ items = PairSeed
    /\ clock = 1
    /\ call = [c \in Callers |-> IdleCall]
    /\ hist = [c \in Callers |-> IdleHist]
    /\ nreq = 0

\* A request arrives when no other is being served.
UploadReportInTurn(c) ==
    /\ \A d \in Callers \ {c} : call[d].pc \in {"idle", "done"}
    /\ UploadReport(c)

NextPair ==
    \/ \E c \in Callers : UploadReportInTurn(c)
    \/ \E c \in Callers : TxGet(c)
    \/ \E c \in Callers : TxPut(c)
    \/ \E c \in Callers : Return(c)

SpecPair == InitPair /\ [][NextPair]_vars

\* The Item kind after handleUploadToItems (report.go:74-142) has run from the
\* name at index i on with no other writer and no failure, the Item kind
\* being its before: each name's item is got, changed and put.
RECURSIVE handleUploadToItemsAlone(_, _, _, _, _, _, _)
handleUploadToItemsAlone(its, itemNames, i, store, user, now, checkInStock) ==
    IF i > Len(itemNames) THEN its
    ELSE LET key == itemNames[i]
             item == IF key \in DOMAIN its THEN its[key] ELSE Item(key, <<>>)
             put == (key :> applyReport(item, store, user, now, checkInStock)) @@ its
         IN  handleUploadToItemsAlone(put, itemNames, i + 1, store, user, now, checkInStock)

\* The Item kind after UploadReport (report.go:35-72) has served the accepted
\* request req at time now in that way: the in-stock list, then the
\* out-of-stock list.
UploadReportAlone(its, req, now) ==
    handleUploadToItemsAlone(
        handleUploadToItemsAlone(its, req.InStock, 1, stores[req.StoreID],
                                 users[req.UserID], now, TRUE),
        req.OutStock, 1, stores[req.StoreID], users[req.UserID], now, FALSE)

\* What an Item kind counts: for each report its item, store and flag, its
\* seen count and the user IDs of its observers.
CountsOf(its) ==
    UNION {{<<k, its[k].StockReports[i].StoreInfo.StoreID, its[k].StockReports[i].InStock,
              its[k].StockReports[i].SeenCnt, Observers(its[k].StockReports[i])>> :
              i \in 1..Len(its[k].StockReports)} : k \in DOMAIN its}

\* Two uploads by different users have been served one after the other, each
\* answered with 200.
BothUploaded ==
    /\ \A c \in Callers : call[c].pc = "done" /\ call[c].status = StatusOK
    /\ call[1].req.UserID # call[2].req.UserID

\* C29: after two uploads by different users, served one after the other and
\* both answered with 200, storage counts what it would count had the two
\* been served in the other order from the same storage: the same reports by
\* item, store and flag, each with the same seen count and the same observer
\* user IDs.
C29_UploadsCommute ==
    BothUploaded
    => /\ CountsOf(items)
            = CountsOf(UploadReportAlone(UploadReportAlone(PairSeed, call[1].req, 1),
                                         call[2].req, 2))
       /\ CountsOf(items)
            = CountsOf(UploadReportAlone(UploadReportAlone(PairSeed, call[2].req, 1),
                                         call[1].req, 2))

\* C29's case: the two users have reported item "a" in stock at store s2, for
\* which it had no report: whoever came first, there is one report with seen
\* count 2, and the report of user u1 has been joined by user u2.
C29_Witness ==
    /\ BothUploaded
    /\ <<"a">> \in DOMAIN items
    /\ <<<<"a">>, "s2", TRUE, 2, {"u1", "u2"}>> \in CountsOf(items)

====
